---- MODULE Spec2Model ----
(***************************************************************************)
(* Model of packages/eslint-plugin/src/rules/migrate-from-lingui.ts:       *)
(* the import-edit synthesizer getOrInsertImport and the translationJSX    *)
(* listener of the migrate-from-lingui rule; and of the runtime library    *)
(* packages/core/src/index.ts: Book, loadCatalog, getTranslator,           *)
(* preloadCatalogs and selectLocale.                                       *)
(*                                                                         *)
(* Source text is a sequence of atoms (strings): a space, a newline, a     *)
(* punctuator, a double quote, a decimal digit, or a run of identifier     *)
(* characters.  An identifier is a sequence of atoms, so that the template *)
(* `${importName}${i}` is real concatenation: Bar0 is <<"Bar", "0">>.      *)
(***************************************************************************)
EXTENDS Integers, Sequences, FiniteSets, TLC

VARIABLES text, others, ast, phase, call, result, first, captured, report,
          book, requested, tasks, got, handled

vars == <<text, others, ast, phase, call, result, first, captured, report,
          book, requested, tasks, got, handled>>

\* The state of the lint rule, and the state of the runtime library.
ruleVars == <<text, others, ast, phase, call, result, first, captured, report>>

coreVars == <<book, requested, tasks, got, handled>>

Null == [none |-> TRUE]

\* No book has been constructed (the lint rule runs without the runtime).
NoBook ==
  /\ book = Null
  /\ requested = Null
  /\ tasks = <<>>
  /\ got = Null
  /\ handled = <<>>

----------------------------------------------------------------------------
(* Lexical structure (the tokens sourceCode.getTokensAfter/getTokenBefore  *)
(* hand to the rule).                                                      *)

Digits == <<"0", "1", "2", "3", "4", "5", "6", "7", "8", "9">>

IsDigit(a) == \E d \in 1..10 : Digits[d] = a

IsSpace(a) == a \in {" ", "\n"}

IsPunctAtom(a) == a \in {",", "{", "}", "*", ";"}

IsWordAtom(a) == ~IsSpace(a) /\ ~IsPunctAtom(a) /\ a # "\""

\* import and default are reserved words: the parser types them Keyword;
\* from, as and type are contextual and typed Identifier.
ReservedWords == {<<"import">>, <<"default">>}

RECURSIVE WordEnd(_, _)
\* The 1-based index of the last atom of the word that starts at atom p.
WordEnd(t, p) ==
  IF p + 1 <= Len(t) /\ IsWordAtom(t[p + 1]) THEN WordEnd(t, p + 1) ELSE p

RECURSIVE QuoteEnd(_, _)
\* The index of the first double quote at or after atom p; 0 when there is none.
QuoteEnd(t, p) ==
  IF p > Len(t) THEN 0
  ELSE IF t[p] = "\"" THEN p
  ELSE QuoteEnd(t, p + 1)

MkToken(ty, t, p, q) ==
  [type |-> ty, value |-> SubSeq(t, p, q), start |-> p - 1, end |-> q]

WordType(t, p, q) ==
  IF IsDigit(t[p]) THEN "Numeric"
  ELSE IF SubSeq(t, p, q) \in ReservedWords THEN "Keyword"
  ELSE "Identifier"

RECURSIVE Lex(_, _, _)
RECURSIVE LexString(_, _, _, _)
RECURSIVE LexWord(_, _, _, _)

\* A string literal from the quote at atom p to the closing quote at q.
LexString(t, p, q, acc) ==
  IF q = 0 THEN Append(acc, MkToken("Invalid", t, p, Len(t)))
  ELSE Lex(t, q + 1, Append(acc, MkToken("String", t, p, q)))

\* A word (identifier, keyword or number) from atom p to atom q.
LexWord(t, p, q, acc) ==
  Lex(t, q + 1, Append(acc, MkToken(WordType(t, p, q), t, p, q)))

\* The tokens of text t from atom p on; ranges are 0-based offsets [start, end).
Lex(t, p, acc) ==
  IF p > Len(t) THEN acc
  ELSE IF IsSpace(t[p]) THEN Lex(t, p + 1, acc)
  ELSE IF IsPunctAtom(t[p]) THEN Lex(t, p + 1, Append(acc, MkToken("Punctuator", t, p, p)))
  ELSE IF t[p] = "\"" THEN LexString(t, p, QuoteEnd(t, p + 1), acc)
  ELSE LexWord(t, p, WordEnd(t, p), acc)

Tokenize(t) == Lex(t, 1, <<>>)

EOF == [type |-> "EOF", value |-> <<>>, start |-> -1, end |-> -1]

Tok(toks, i) == IF i >= 1 /\ i <= Len(toks) THEN toks[i] ELSE EOF

IsPunct(toks, i, p) == Tok(toks, i).type = "Punctuator" /\ Tok(toks, i).value = <<p>>

IsWord(toks, i, w) == Tok(toks, i).type = "Identifier" /\ Tok(toks, i).value = <<w>>

IsKeyword(toks, i, w) == Tok(toks, i).type = "Keyword" /\ Tok(toks, i).value = <<w>>

\* A binding identifier: an Identifier token that is not a contextual word
\* of the import grammar.
IsBinding(toks, i) ==
  Tok(toks, i).type = "Identifier" /\ Tok(toks, i).value \notin {<<"from">>, <<"as">>, <<"type">>}

\* An IdentifierName (the imported side of a specifier may be a reserved word).
IsName(toks, i) == IsBinding(toks, i) \/ Tok(toks, i).type = "Keyword"

----------------------------------------------------------------------------
(* Syntax tree of the program body (ImportDeclaration and its specifiers). *)

NoSpecs == [ok |-> FALSE, specs |-> <<>>, next |-> 0]

MkSpec(ty, imported, local, kind, s, e) ==
  [type |-> ty, imported |-> imported, local |-> local, importKind |-> kind,
   start |-> s, end |-> e]

RECURSIVE ParseSpecs(_, _, _)
RECURSIVE SpecName(_, _, _, _)
RECURSIVE SpecLocal(_, _, _, _, _)
RECURSIVE SpecEnd(_, _, _)

\* After a specifier that ends at token k: "," and more, or "}".
SpecEnd(toks, k, acc) ==
  IF IsPunct(toks, k + 1, ",") THEN ParseSpecs(toks, k + 2, acc)
  ELSE IF IsPunct(toks, k + 1, "}") THEN [ok |-> TRUE, specs |-> acc, next |-> k + 2]
  ELSE NoSpecs

\* A specifier that starts at token i, its imported name at j, its local at k.
SpecLocal(toks, i, j, k, acc) ==
  IF ~IsName(toks, j) \/ ~IsBinding(toks, k) THEN NoSpecs
  ELSE SpecEnd(toks, k,
               Append(acc, MkSpec("ImportSpecifier", Tok(toks, j).value, Tok(toks, k).value,
                                  IF j > i THEN "type" ELSE "value",
                                  Tok(toks, i).start, Tok(toks, k).end)))

SpecName(toks, i, j, acc) ==
  SpecLocal(toks, i, j, IF IsWord(toks, j + 1, "as") THEN j + 2 ELSE j, acc)

\* The named specifiers from token i (just after "{" or after a ",") up to "}".
ParseSpecs(toks, i, acc) ==
  IF IsPunct(toks, i, "}") THEN [ok |-> TRUE, specs |-> acc, next |-> i + 1]
  ELSE SpecName(toks, i, IF IsWord(toks, i, "type") /\ IsName(toks, i + 1) THEN i + 1 ELSE i, acc)

\* The rest of an import clause from token j: { named } or * as ns.
ClauseRest(toks, j, def) ==
  IF IsPunct(toks, j, "{") THEN ParseSpecs(toks, j + 1, def)
  ELSE IF IsPunct(toks, j, "*") /\ IsWord(toks, j + 1, "as") /\ IsBinding(toks, j + 2)
    THEN [ok |-> TRUE,
          specs |-> Append(def, MkSpec("ImportNamespaceSpecifier", <<>>,
                                       Tok(toks, j + 2).value, "value",
                                       Tok(toks, j).start, Tok(toks, j + 2).end)),
          next |-> j + 3]
  ELSE NoSpecs

\* The import clause from token i: [default] [,] [{ named } | * as ns].
ParseClause(toks, i) ==
  IF ~IsBinding(toks, i) THEN ClauseRest(toks, i, <<>>)
  ELSE IF IsPunct(toks, i + 1, ",")
    THEN ClauseRest(toks, i + 2,
                    <<MkSpec("ImportDefaultSpecifier", <<>>, Tok(toks, i).value, "value",
                             Tok(toks, i).start, Tok(toks, i).end)>>)
  ELSE [ok |-> TRUE,
        specs |-> <<MkSpec("ImportDefaultSpecifier", <<>>, Tok(toks, i).value, "value",
                           Tok(toks, i).start, Tok(toks, i).end)>>,
        next |-> i + 1]

RECURSIVE LineStart(_, _)
\* The number of atoms between the start of the line and offset s.
LineStart(t, s) ==
  IF s = 0 \/ t[s] = "\n" THEN 0 ELSE 1 + LineStart(t, s - 1)

NoStmt == [ok |-> FALSE, node |-> Null, next |-> 0]

MkStmt(t, toks, ty, kind, specs, src, i, last) ==
  [ok |-> TRUE,
   node |-> [type |-> ty, source |-> src, importKind |-> kind, specifiers |-> specs,
             start |-> Tok(toks, i).start, end |-> Tok(toks, last).end,
             column |-> LineStart(t, Tok(toks, i).start)],
   next |-> last + 1]

\* An import declaration from token i whose module specifier is token s.
ImportSource(t, toks, i, kind, specs, s) ==
  IF Tok(toks, s).type # "String" \/ Len(Tok(toks, s).value) # 3 THEN NoStmt
  ELSE MkStmt(t, toks, "ImportDeclaration", kind, specs,
              [value |-> Tok(toks, s).value[2], tok |-> s], i,
              IF IsPunct(toks, s + 1, ";") THEN s + 1 ELSE s)

ImportFrom(t, toks, i, kind, cl) ==
  IF ~cl.ok \/ ~IsWord(toks, cl.next, "from") THEN NoStmt
  ELSE ImportSource(t, toks, i, kind, cl.specs, cl.next + 1)

\* An import declaration from token i, its clause (or source) at token j.
ParseImport(t, toks, i, kind, j) ==
  IF Tok(toks, j).type = "String" THEN ImportSource(t, toks, i, kind, <<>>, j)
  ELSE ImportFrom(t, toks, i, kind, ParseClause(toks, j))

\* One statement from token i: an import declaration, or an expression
\* statement `word;` that stands for any other code.
ParseStmt(t, toks, i) ==
  IF IsKeyword(toks, i, "import") THEN
    IF IsWord(toks, i + 1, "type") /\ ~IsWord(toks, i + 2, "from")
         /\ Tok(toks, i + 2).type # "String"
      THEN ParseImport(t, toks, i, "type", i + 2)
    ELSE ParseImport(t, toks, i, "value", i + 1)
  ELSE IF IsBinding(toks, i) /\ IsPunct(toks, i + 1, ";")
    THEN MkStmt(t, toks, "ExpressionStatement", "value", <<>>, [value |-> "", tok |-> 0],
                i, i + 1)
  ELSE NoStmt

RECURSIVE ParseBody(_, _, _, _)
RECURSIVE ParseNext(_, _, _, _)

ParseNext(t, toks, acc, st) ==
  IF ~st.ok THEN [ok |-> FALSE, body |-> <<>>]
  ELSE ParseBody(t, toks, st.next, Append(acc, st.node))

ParseBody(t, toks, i, acc) ==
  IF i > Len(toks) THEN [ok |-> TRUE, body |-> acc]
  ELSE ParseNext(t, toks, acc, ParseStmt(t, toks, i))

\* The Program node: its body, the token list, and where it starts (its
\* first token; offset 0 and column 0 for an empty file).
Program(t, toks, r) ==
  [ok |-> r.ok, body |-> r.body, tokens |-> toks,
   start |-> IF toks = <<>> THEN 0 ELSE toks[1].start,
   column |-> IF toks = <<>> THEN 0 ELSE LineStart(t, toks[1].start)]

ParseTokens(t, toks) == Program(t, toks, ParseBody(t, toks, 1, <<>>))

Parse(t) == ParseTokens(t, Tokenize(t))

----------------------------------------------------------------------------
(* Identifiers and the texts the rule writes.                              *)

RECURSIVE Decimal(_)
\* `${i}`: the decimal digits of a natural number.
Decimal(i) ==
  IF i < 10 THEN <<Digits[i + 1]>>
  ELSE Decimal(i \div 10) \o <<Digits[(i % 10) + 1]>>

RECURSIVE Spaces(_)
\* " ".repeat(n)
Spaces(n) == IF n <= 0 THEN <<>> ELSE <<" ">> \o Spaces(n - 1)

\* JSON.stringify of a module specifier (one atom without quote or backslash).
JSONStringify(s) == <<"\"", s, "\"">>

\* A faulty insertTextAfter: it replaces the node instead of inserting after it.
ReplaceNode(node, txt) == [range |-> <<node.start, node.end>>, text |-> txt]

\* fixer.insertTextAfter / insertTextBefore: an insertion at one offset.
InsertTextAfter(node, txt) == [range |-> <<node.end, node.end>>, text |-> txt]

InsertTextBefore(node, txt) == [range |-> <<node.start, node.start>>, text |-> txt]

\* How the fixer applies one fix to the text.
ApplyFix(t, f) ==
  SubSeq(t, 1, f.range[1]) \o f.text \o SubSeq(t, f.range[2] + 1, Len(t))

RECURSIVE ApplyFixes(_, _, _)
\* The fixes of one report, applied left to right (k = atoms inserted so far).
ApplyFixes(t, fixes, k) ==
  IF fixes = <<>> THEN t
  ELSE ApplyFixes(ApplyFix(t, [range |-> <<fixes[1].range[1] + k, fixes[1].range[2] + k>>,
                               text |-> fixes[1].text]),
                  Tail(fixes),
                  k + Len(fixes[1].text) - (fixes[1].range[2] - fixes[1].range[1]))

----------------------------------------------------------------------------
(* programScope.variables: every import binding (value or type) and every  *)
(* other module-scope declaration.                                         *)

RECURSIVE Locals(_)
Locals(body) ==
  IF body = <<>> THEN {}
  ELSE {body[1].specifiers[k].local : k \in 1..Len(body[1].specifiers)} \cup Locals(Tail(body))

ScopeVariablesDeclared(tree, declared) == declared

ScopeVariables(tree, declared) == Locals(tree.body) \cup declared

----------------------------------------------------------------------------
(* getOrInsertImport                                                       *)

None == 0

RECURSIVE ScanSpecifiersTypeBlind(_, _, _, _)
\* A faulty pass over the specifiers: without the type-only skip of line 224.
ScanSpecifiersTypeBlind(specs, importName, k, eligible) ==
  IF k > Len(specs) THEN [found |-> FALSE, at |-> None, eligible |-> eligible]
  ELSE IF \/ (specs[k].type = "ImportDefaultSpecifier" /\ importName = <<"default">>)
          \/ (specs[k].type = "ImportSpecifier" /\ specs[k].imported = importName)
    THEN [found |-> TRUE, at |-> k, eligible |-> eligible]
  ELSE ScanSpecifiersTypeBlind(specs, importName, k + 1,
                               eligible /\ specs[k].type # "ImportNamespaceSpecifier")

\* Lines 222-235: the specifiers of one declaration from the target module.
\* found: a specifier binds importName (its index in k); eligible: no
\* namespace specifier was seen before the scan ended.
RECURSIVE ScanSpecifiers(_, _, _, _)
ScanSpecifiers(specs, importName, k, eligible) ==
  IF k > Len(specs) THEN [found |-> FALSE, at |-> None, eligible |-> eligible]
  ELSE IF specs[k].importKind = "type" THEN ScanSpecifiers(specs, importName, k + 1, eligible)
  ELSE IF \/ (specs[k].type = "ImportDefaultSpecifier" /\ importName = <<"default">>)
          \/ (specs[k].type = "ImportSpecifier" /\ specs[k].imported = importName)
    THEN [found |-> TRUE, at |-> k, eligible |-> eligible]
  ELSE ScanSpecifiers(specs, importName, k + 1,
                      eligible /\ specs[k].type # "ImportNamespaceSpecifier")

RECURSIVE ScanBody(_, _, _, _, _, _)
RECURSIVE ScanImport(_, _, _, _, _, _)
RECURSIVE ScanTarget(_, _, _, _, _, _, _)

\* Lines 230-236: a declaration from the target module, r the result of the
\* pass over its specifiers.
ScanTarget(body, source, importName, hints, i, st, r) ==
  IF r.found
    THEN [st EXCEPT !.reused = TRUE, !.local = body[i].specifiers[r.at].local,
                    !.reusedAt = <<i, r.at>>]
  ELSE ScanBody(body, source, importName, hints, i + 1,
                IF st.importNode = None /\ r.eligible THEN [st EXCEPT !.importNode = i] ELSE st)

\* Lines 219-242: one import declaration (lastImport already set).
ScanImport(body, source, importName, hints, i, st) ==
  IF body[i].source.value = source THEN
    IF body[i].importKind = "type" THEN ScanBody(body, source, importName, hints, i + 1, st)
    ELSE ScanTarget(body, source, importName, hints, i, st,
                    ScanSpecifiers(body[i].specifiers, importName, 1, TRUE))
  ELSE IF st.positionHintNode = None /\ (\E h \in 1..Len(hints) : hints[h] = body[i].source.value)
    THEN ScanBody(body, source, importName, hints, i + 1, [st EXCEPT !.positionHintNode = i])
  ELSE ScanBody(body, source, importName, hints, i + 1, st)

\* Lines 213-243: the pass over program.body.  st holds positionHintNode,
\* importNode and lastImport as indexes into body (None: undefined).
ScanBody(body, source, importName, hints, i, st) ==
  IF i > Len(body) THEN st
  ELSE IF body[i].type # "ImportDeclaration"
    THEN ScanBody(body, source, importName, hints, i + 1, st)
  ELSE ScanImport(body, source, importName, hints, i, [st EXCEPT !.lastImport = i])

ScanStart ==
  [reused |-> FALSE, local |-> <<>>, reusedAt |-> <<None, None>>,
   positionHintNode |-> None, importNode |-> None, lastImport |-> None]

Scan(tree, source, importName, hints) ==
  ScanBody(tree.body, source, importName, hints, 1, ScanStart)

RECURSIVE FreeSuffix(_, _, _)
\* Lines 247-250: the first i from i on with importName+i not defined.
FreeSuffix(importName, definedNames, i) ==
  IF importName \o Decimal(i) \notin definedNames THEN i
  ELSE FreeSuffix(importName, definedNames, i + 1)

\* A faulty renaming: the suffixes start at 1.
NewNameFromOne(importName, variables) ==
  IF importName \in variables
    THEN importName \o Decimal(FreeSuffix(importName, variables, 1))
  ELSE importName

\* Lines 244-251
NewName(importName, variables) ==
  IF importName \in variables
    THEN importName \o Decimal(FreeSuffix(importName, variables, 0))
  ELSE importName

\* Lines 252-253
SpecText(importName, newName) ==
  IF newName = importName THEN importName
  ELSE importName \o <<" ", "as", " ">> \o newName

HasSpecifier(node, ty) == \E k \in 1..Len(node.specifiers) : node.specifiers[k].type = ty

FirstSpecifier(node, ty) ==
  node.specifiers[CHOOSE k \in 1..Len(node.specifiers) :
                    /\ node.specifiers[k].type = ty
                    /\ \A j \in 1..(k - 1) : node.specifiers[j].type # ty]

\* sourceCode.getTokensAfter(node, 2)[0]: the index of the first token that
\* starts at or after the end of node (the second one is the next index).
TokenAfter(toks, node) ==
  IF \A i \in 1..Len(toks) : toks[i].start < node.end THEN Len(toks) + 1
  ELSE CHOOSE i \in 1..Len(toks) :
         /\ toks[i].start >= node.end
         /\ \A j \in 1..(i - 1) : toks[j].start < node.end

\* Lines 271-293: a default specifier and no named one; x is the index of
\* tokens[0].
AfterDefault(toks, x, specText) ==
  IF IsPunct(toks, x, ",") /\ IsPunct(toks, x + 1, "{")
    THEN <<InsertTextAfter(toks[x + 1], <<" ">> \o specText \o <<" ">>)>>
  ELSE IF IsWord(toks, x, "from")
    THEN <<InsertTextAfter(toks[x], <<",", " ", "{", " ">> \o specText \o <<" ", "}">>)>>
  ELSE <<>>

\* Lines 295-318: no specifier at all; b is the index of the token before
\* the module specifier.  In `import "m"` that token is the reserved word
\* import, a Keyword token, so the test of line 296 fails on it.
NoSpecifiers(toks, b, specText) ==
  IF IsWord(toks, b, "import")
    THEN <<InsertTextAfter(toks[b], <<" ", "{", " ">> \o specText \o <<" ", "}", " ", "from">>)>>
  ELSE IF IsWord(toks, b, "from") /\ IsPunct(toks, b - 2, "{")
    THEN <<InsertTextAfter(toks[b - 2], <<" ">> \o specText \o <<" ">>)>>
  ELSE <<>>

\* Lines 254-320: the edit inside the declaration importNode; <<>> when no
\* branch returns and control falls through to line 321.
InPlaceFixes(toks, node, specText) ==
  IF HasSpecifier(node, "ImportSpecifier")
    THEN <<InsertTextAfter(node.specifiers[Len(node.specifiers)], <<",", " ">> \o specText)>>
  ELSE IF HasSpecifier(node, "ImportDefaultSpecifier")
    THEN AfterDefault(toks, TokenAfter(toks, FirstSpecifier(node, "ImportDefaultSpecifier")),
                      specText)
  ELSE NoSpecifiers(toks, node.source.tok - 1, specText)

\* `import { ${specText} } from ${JSON.stringify(source)};`
ImportStatement(specText, source) ==
  <<"import", " ", "{", " ">> \o specText \o <<" ", "}", " ", "from", " ">>
    \o JSONStringify(source) \o <<";">>

\* A faulty insert-after-last: the indentation of the last import is dropped.
InsertAfterLastFlush(lastImport, specText, source) ==
  <<InsertTextAfter(lastImport, <<"\n">> \o ImportStatement(specText, source))>>

\* Lines 321-332
InsertAfterLast(lastImport, specText, source) ==
  <<InsertTextAfter(lastImport,
                    <<"\n">> \o Spaces(lastImport.column) \o ImportStatement(specText, source))>>

\* Lines 333-343
InsertBefore(insertBefore, specText, source) ==
  <<InsertTextBefore(insertBefore,
                     ImportStatement(specText, source) \o <<"\n">>
                       \o Spaces(insertBefore.column))>>

\* A faulty placement: the position hint is ignored.
NewStatementAtTop(tree, c, st, specText) ==
  IF c.doInsertAfter /\ st.lastImport # None
    THEN InsertAfterLast(tree.body[st.lastImport], specText, c.source)
  ELSE InsertBefore(tree, specText, c.source)

\* Lines 321-343: a new import statement.
NewStatement(tree, c, st, specText) ==
  IF c.doInsertAfter /\ st.lastImport # None
    THEN InsertAfterLast(tree.body[st.lastImport], specText, c.source)
  ELSE IF st.positionHintNode # None
    THEN InsertBefore(tree.body[st.positionHintNode], specText, c.source)
  ELSE InsertBefore(tree, specText, c.source)

\* Lines 254-343, inPlace the fixes of lines 254-320.
Fixes(tree, c, st, specText, inPlace) ==
  IF inPlace # <<>> THEN inPlace ELSE NewStatement(tree, c, st, specText)

\* Lines 244-343: nothing was reused.
Insert(tree, c, st, newName, specText) ==
  [fixes |-> Fixes(tree, c, st, specText,
                   IF st.importNode = None THEN <<>>
                   ELSE InPlaceFixes(tree.tokens, tree.body[st.importNode], specText)),
   name |-> newName]

Return(tree, c, st, newName) ==
  IF st.reused THEN [fixes |-> <<>>, name |-> st.local]
  ELSE Insert(tree, c, st, newName, SpecText(c.importName, newName))

\* Lines 202-344.  c = [source, importName, positionHintSources, doInsertAfter].
getOrInsertImport(tree, variables, c) ==
  Return(tree, c, Scan(tree, c.source, c.importName, c.positionHintSources),
         NewName(c.importName, variables))

----------------------------------------------------------------------------
(* The programs the rule is run on, and the requests made of it.           *)

Bar == <<"Bar">>

Default == <<"default">>

\* The most statements in a program body.
MaxStmts == 2

\* How many of Bar0, Bar1, ... other code may already declare.
MaxTaken == 1

\* Statements a program is made of: imports from the target module "m" in
\* every shape the rule tells apart, an import from the hinted module "h",
\* and other code.
Stmts ==
  { <<"import", " ", "\"", "m", "\"", ";">>,
    <<"import", " ", "{", "}", " ", "from", " ", "\"", "m", "\"", ";">>,
    <<"import", " ", "Foo", " ", "from", " ", "\"", "m", "\"", ";">>,
    <<"import", " ", "Foo", ",", " ", "{", "}", " ", "from", " ", "\"", "m", "\"", ";">>,
    <<"import", " ", "{", " ", "Bar", " ", "as", " ", "Baz", " ", "}", " ", "from", " ",
      "\"", "m", "\"", ";">>,
    <<"import", " ", "Dft", ",", " ", "{", " ", "Qux", " ", "}", " ", "from", " ",
      "\"", "m", "\"", ";">>,
    <<"import", " ", "*", " ", "as", " ", "Ns", " ", "from", " ", "\"", "m", "\"", ";">>,
    <<"import", " ", "type", " ", "{", " ", "Bar", " ", "}", " ", "from", " ",
      "\"", "m", "\"", ";">>,
    <<"import", " ", "{", " ", "type", " ", "Bar", " ", "as", " ", "T", " ", "}", " ", "from", " ",
      "\"", "m", "\"", ";">>,
    <<"import", " ", "{", " ", "Trans", " ", "}", " ", "from", " ", "\"", "h", "\"", ";">>,
    <<"code", ";">> }

RECURSIVE Lines(_, _)
\* The statements one per line, each indented by col.
Lines(stmts, col) ==
  IF stmts = <<>> THEN <<>>
  ELSE Spaces(col) \o stmts[1]
         \o (IF Len(stmts) > 1 THEN <<"\n">> ELSE <<>>) \o Lines(Tail(stmts), col)

RECURSIVE Bindings(_)
\* How many import bindings the body declares.
Bindings(body) ==
  IF body = <<>> THEN 0 ELSE Len(body[1].specifiers) + Bindings(Tail(body))

\* Names other code may declare at module scope.
OtherNames == {Bar} \cup {Bar \o Decimal(i) : i \in 0..(MaxTaken - 1)}

\* A program that compiles: it parses and no name is declared twice.
Valid(tree, declared) ==
  /\ tree.ok
  /\ Cardinality(Locals(tree.body)) = Bindings(tree.body)
  /\ Locals(tree.body) \cap declared = {}

Calls ==
  [source : {"m"}, importName : {Bar, Default},
   positionHintSources : {<<>>, <<"h">>}, doInsertAfter : BOOLEAN]

InitProgram ==
  /\ \E n \in 0..MaxStmts : \E stmts \in [1..n -> Stmts] : \E col \in {0, 2} :
       text = Lines(stmts, col)
  /\ others \in SUBSET OtherNames
  /\ ast = Parse(text)
  /\ Valid(ast, others)

Init ==
  /\ InitProgram
  /\ phase = "idle"
  /\ call = Null
  /\ result = Null
  /\ first = Null
  /\ captured = Null
  /\ report = Null
  /\ NoBook

\* One call of getOrInsertImport on the program as it stands.
Plan(c) ==
  /\ phase = "idle"
  /\ call' = c
  /\ result' = getOrInsertImport(ast, ScopeVariables(ast, others), c)
  /\ phase' = "planned"
  /\ UNCHANGED <<text, others, ast, first, captured, report, book, requested, tasks, got, handled>>

\* The fixer applies the returned fixes and the file is parsed again.
Apply ==
  /\ phase = "planned"
  /\ text' = ApplyFixes(text, result.fixes, 0)
  /\ ast' = Parse(text')
  /\ phase' = "applied"
  /\ UNCHANGED <<others, call, result, first, captured, report, book, requested, tasks, got, handled>>

\* The same request again, on the fixed file (the next lint pass).
Replan ==
  /\ phase = "applied"
  /\ ast.ok
  /\ first' = [call |-> call, name |-> result.name]
  /\ result' = getOrInsertImport(ast, ScopeVariables(ast, others), call)
  /\ phase' = "replanned"
  /\ UNCHANGED <<text, others, ast, call, captured, report, book, requested, tasks, got, handled>>

----------------------------------------------------------------------------
(* The translationJSX listener (lines 67-194).                             *)

MIGRATABLE_PROP_NAMES == {"id", "values", "render", "component", "components"}

RECURSIVE AttributesOk(_, _)
\* Lines 78-88: no attribute makes the listener return justReport().
AttributesOk(attributes, k) ==
  IF k > Len(attributes) THEN TRUE
  ELSE IF attributes[k].type = "JSXSpreadAttribute" THEN FALSE
  ELSE IF attributes[k].nameType # "JSXIdentifier"
            \/ attributes[k].name \notin MIGRATABLE_PROP_NAMES THEN FALSE
  ELSE AttributesOk(attributes, k + 1)

LowerCase ==
  {"a", "b", "c", "d", "e", "f", "g", "h", "i", "j", "k", "l", "m",
   "n", "o", "p", "q", "r", "s", "t", "u", "v", "w", "x", "y", "z"}

RECURSIVE eligibleForJSXTagNameExpression(_, _)
\* Lines 346-363; an identifier's name is the sequence of its characters.
eligibleForJSXTagNameExpression(node, whole) ==
  IF node.type = "Identifier"
    THEN ~(whole /\ node.name # <<>> /\ node.name[1] \in LowerCase)
  ELSE IF node.type = "MemberExpression"
    THEN /\ ~node.computed
         /\ eligibleForJSXTagNameExpression(node.object[1], FALSE)
         /\ node.propertyType = "Identifier"
  ELSE FALSE

NoParams == [ok |-> FALSE, params |-> <<>>]

\* A faulty params.has: no key is ever found.
InParamsNever(params, key) == FALSE

InParams(params, key) == \E k \in 1..Len(params) : params[k] = key

RECURSIVE ObjectParams(_, _, _)
\* Lines 120-126; a property's key is what getStaticKey returns for it
\* (static FALSE: null).
ObjectParams(properties, k, params) ==
  IF k > Len(properties) THEN [ok |-> TRUE, params |-> params]
  ELSE IF properties[k].type # "Property" THEN NoParams
  ELSE IF ~properties[k].static THEN NoParams
  ELSE IF InParams(params, properties[k].key) THEN NoParams
  ELSE ObjectParams(properties, k + 1, Append(params, properties[k].key))

RECURSIVE ArrayParams(_, _, _)
\* Lines 128-138; i is k - 1.
ArrayParams(elements, k, params) ==
  IF k > Len(elements) THEN [ok |-> TRUE, params |-> params]
  ELSE IF elements[k].type = "SpreadElement" THEN NoParams
  ELSE IF InParams(params, Decimal(k - 1)) THEN NoParams
  ELSE ArrayParams(elements, k + 1, Append(params, Decimal(k - 1)))

\* Lines 119-141: one of captured["values"], captured["components"].
NodeParams(valuesNode, params) ==
  IF valuesNode.type = "ObjectExpression" THEN ObjectParams(valuesNode.items, 1, params)
  ELSE IF valuesNode.type = "ArrayExpression" THEN ArrayParams(valuesNode.items, 1, params)
  ELSE IF valuesNode.type # "CaptureFailure" THEN NoParams
  ELSE [ok |-> TRUE, params |-> params]

\* Lines 117-142: the keys of params in insertion order.
ComponentsParams(cap, r) ==
  IF ~r.ok THEN NoParams ELSE NodeParams(cap.components, r.params)

Params(cap) == ComponentsParams(cap, NodeParams(cap.values, <<>>))

\* Lines 69-74
JustReport == [messageId |-> "migrate-trans-jsx", fix |-> FALSE, params |-> <<>>]

\* Lines 144-193
ReportFix(r) ==
  IF ~r.ok THEN JustReport
  ELSE [messageId |-> "migrate-trans-jsx", fix |-> TRUE, params |-> r.params]

\* Lines 105-115
ComponentOk(componentNode) ==
  \/ /\ componentNode.type \in {"Identifier", "MemberExpression"}
     /\ eligibleForJSXTagNameExpression(componentNode, TRUE)
  \/ componentNode.type = "CaptureFailure"

\* Lines 67-194: what the listener reports for one match.
Listener(cap) ==
  IF cap.props.type # "PropsOf" THEN JustReport
  ELSE IF ~AttributesOk(cap.props.attributes, 1) THEN JustReport
  ELSE IF cap.id.type # "Literal" \/ cap.id.valueType # "string" THEN JustReport
  ELSE IF cap.render.type \notin {"JSXElement", "CaptureFailure"} THEN JustReport
  ELSE IF ~ComponentOk(cap.component) THEN JustReport
  ELSE ReportFix(Params(cap))

\* The most attributes, properties and elements in one matched element.
MaxNodes == 2

Attr(ty, nameType, name) == [type |-> ty, nameType |-> nameType, name |-> name]

Attributes ==
  { Attr("JSXAttribute", "JSXIdentifier", "id"),
    Attr("JSXAttribute", "JSXIdentifier", "values"),
    Attr("JSXAttribute", "JSXIdentifier", "foo"),
    Attr("JSXAttribute", "JSXNamespacedName", "id"),
    Attr("JSXSpreadAttribute", "", "") }

Item(ty, static, key) == [type |-> ty, static |-> static, key |-> key]

Properties ==
  { Item("Property", TRUE, <<"a">>), Item("Property", TRUE, <<"0">>),
    Item("Property", FALSE, <<>>), Item("SpreadElement", FALSE, <<>>) }

Elements == { Item("Identifier", FALSE, <<>>), Item("SpreadElement", FALSE, <<>>) }

\* What captured["values"] / captured["components"] can be, with n items.
ValuesNodes(n) ==
  {[type |-> "ObjectExpression", items |-> ps] : ps \in [1..n -> Properties]}
    \cup {[type |-> "ArrayExpression", items |-> es] : es \in [1..n -> Elements]}
    \cup (IF n = 0 THEN {[type |-> ty, items |-> <<>>] : ty \in {"CaptureFailure", "Identifier"}}
          ELSE {})

Expr(ty, name, computed, object, propertyType) ==
  [type |-> ty, name |-> name, computed |-> computed, object |-> object,
   propertyType |-> propertyType]

Ident(name) == Expr("Identifier", name, FALSE, <<>>, "")

ComponentNodes ==
  { Expr("CaptureFailure", <<>>, FALSE, <<>>, ""),
    Expr("Literal", <<>>, FALSE, <<>>, ""),
    Ident(<<"F", "o", "o">>),
    Ident(<<"d", "i", "v">>),
    Expr("MemberExpression", <<>>, FALSE, <<Ident(<<"u", "i">>)>>, "Identifier"),
    Expr("MemberExpression", <<>>, TRUE, <<Ident(<<"U", "i">>)>>, "Identifier"),
    Expr("MemberExpression", <<>>, FALSE, <<Expr("CallExpression", <<>>, FALSE, <<>>, "")>>,
         "Identifier"),
    Expr("MemberExpression", <<>>, FALSE, <<Ident(<<"U", "i">>)>>, "PrivateIdentifier") }

IdNodes ==
  { [type |-> "Literal", valueType |-> "string"], [type |-> "Literal", valueType |-> "number"],
    [type |-> "CaptureFailure", valueType |-> ""], [type |-> "TemplateLiteral", valueType |-> ""] }

RenderNodes ==
  { [type |-> "JSXElement"], [type |-> "CaptureFailure"], [type |-> "ArrowFunctionExpression"] }

MkCaptured(props, id, render, component, values, components) ==
  [props |-> props, id |-> id, render |-> render, component |-> component,
   values |-> values, components |-> components]

\* The listener is called for one match; it reports once.
TranslationJSX ==
  /\ report = Null
  /\ \E a \in 0..MaxNodes : \E v \in 0..(MaxNodes - a) : \E n \in 0..(MaxNodes - a - v) :
       \E attributes \in [1..a -> Attributes] :
       \E values \in ValuesNodes(v) : \E components \in ValuesNodes(n) :
       \E id \in IdNodes : \E render \in RenderNodes : \E component \in ComponentNodes :
       \E props \in {[type |-> "PropsOf", attributes |-> attributes]}
                      \cup (IF a = 0 THEN {[type |-> "CaptureFailure", attributes |-> <<>>]}
                            ELSE {}) :
         /\ captured' = MkCaptured(props, id, render, component, values, components)
         /\ report' = Listener(captured')
  /\ UNCHANGED <<text, others, ast, phase, call, result, first, book, requested, tasks, got, handled>>

\* The rule run on one file with no imports.
InitJSX ==
  /\ text = <<>>
  /\ others = {}
  /\ ast = Parse(text)
  /\ phase = "idle"
  /\ call = Null
  /\ result = Null
  /\ first = Null
  /\ captured = Null
  /\ report = Null
  /\ NoBook

NextJSX == TranslationJSX

SpecJSX == InitJSX /\ [][NextJSX]_vars

Next ==
  \/ \E c \in Calls : Plan(c)
  \/ Apply
  \/ Replan

Spec == Init /\ [][Next]_vars

----------------------------------------------------------------------------
(* Two requests against the same, unedited program (one fix composes the   *)
(* edits of several calls).                                                *)

SeqCalls ==
  [source : {"m", "h"}, importName : {Bar, Bar \o <<"0">>},
   positionHintSources : {<<>>}, doInsertAfter : BOOLEAN]

\* A second call, for another export, before any edit is applied.
PlanNext(c) ==
  /\ phase = "planned"
  /\ <<c.source, c.importName>> # <<call.source, call.importName>>
  /\ first' = [call |-> call, name |-> result.name]
  /\ call' = c
  /\ result' = getOrInsertImport(ast, ScopeVariables(ast, others), c)
  /\ phase' = "planned2"
  /\ UNCHANGED <<text, others, ast, captured, report, book, requested, tasks, got, handled>>

NextSeq ==
  \/ \E c \in SeqCalls : Plan(c)
  \/ \E c \in SeqCalls : PlanNext(c)

SpecSeq == Init /\ [][NextSeq]_vars

----------------------------------------------------------------------------
(* Vocabulary of the properties.                                           *)

Body == ast.body

IsImport(i) == Body[i].type = "ImportDeclaration"

\* Specifier k of statement i binds the requested export as a value.
Binds(i, k) ==
  /\ IsImport(i)
  /\ Body[i].source.value = call.source
  /\ Body[i].importKind # "type"
  /\ Body[i].specifiers[k].importKind # "type"
  /\ \/ Body[i].specifiers[k].type = "ImportSpecifier"
        /\ Body[i].specifiers[k].imported = call.importName
     \/ Body[i].specifiers[k].type = "ImportDefaultSpecifier"
        /\ call.importName = Default

Reusable ==
  UNION {{<<i, k>> : k \in {j \in 1..Len(Body[i].specifiers) : Binds(i, j)}} : i \in 1..Len(Body)}

\* Statement i is a value import from the target module with no namespace specifier.
EligibleDecl(i) ==
  /\ IsImport(i)
  /\ Body[i].source.value = call.source
  /\ Body[i].importKind # "type"
  /\ \A k \in 1..Len(Body[i].specifiers) : Body[i].specifiers[k].type # "ImportNamespaceSpecifier"

HasEligible == \E i \in 1..Len(Body) : EligibleDecl(i)

FirstEligible == CHOOSE i \in 1..Len(Body) : EligibleDecl(i) /\ \A j \in 1..(i - 1) : ~EligibleDecl(j)

Imports == {i \in 1..Len(Body) : IsImport(i)}

LastImportIx == CHOOSE i \in Imports : \A j \in Imports : j <= i

Hinted ==
  {i \in Imports : \E h \in 1..Len(call.positionHintSources) :
                     call.positionHintSources[h] = Body[i].source.value}

FirstHintedIx == CHOOSE i \in Hinted : \A j \in Hinted : i <= j

Planned == phase = "planned"

Inserted == Planned /\ result.fixes # <<>>

TheFix == result.fixes[1]

\* The fix lands strictly inside an existing statement.
InPlace == \E i \in 1..Len(Body) : Body[i].start < TheFix.range[1] /\ TheFix.range[1] < Body[i].end

Shape(sp) == [type |-> sp.type, imported |-> sp.imported, local |-> sp.local,
              importKind |-> sp.importKind]

Shapes(specs) == [k \in 1..Len(specs) |-> Shape(specs[k])]

NewSpecShape ==
  [type |-> "ImportSpecifier", imported |-> call.importName, local |-> result.name,
   importKind |-> "value"]

\* The words of an inserted text that belong to specifiers.
SpecWords(txt) ==
  SelectSeq(Tokenize(txt),
            LAMBDA tk : tk.type \in {"Identifier", "Keyword"}
                          /\ tk.value \notin {<<"import">>, <<"from">>})

WordValues(toks) == [k \in 1..Len(toks) |-> toks[k].value]

----------------------------------------------------------------------------
\* C1: when a value import declaration from the target module holds a value
\* specifier that binds the requested export, at any position among the
\* imports, the call returns the local name of such a specifier and no edit;
\* nothing is reused from a type-only declaration or a type-only specifier.
C1_ReuseExisting ==
  Planned =>
    /\ Reusable # {} =>
         /\ result.fixes = <<>>
         /\ \E b \in Reusable : result.name = Body[b[1]].specifiers[b[2]].local
    /\ Reusable = {} => result.fixes # <<>>

\* The reused binding sits in the second import, after a type-only import
\* of the same export from the same module.
C1_Witness ==
  /\ Planned
  /\ Reusable = {<<2, 1>>}
  /\ Len(Body) = 2 /\ IsImport(1) /\ Body[1].source.value = call.source
  /\ Body[1].importKind = "type"
  /\ result = [fixes |-> <<>>, name |-> <<"Baz">>]

\* C2: once the fixes of a call are applied, the same request finds the
\* binding: the file still parses, and the call returns the name of the
\* first call and no edit (stated for named exports).
C2_Dedup ==
  call # Null /\ call.importName # Default =>
    /\ phase = "applied" => ast.ok
    /\ phase = "replanned" => result.fixes = <<>> /\ result.name = first.name

\* C3: two calls for distinct exports against one program return distinct
\* local names, and a newly bound name is not already declared.
C3_NoCollision ==
  phase = "planned2" =>
    /\ result.name # first.name
    /\ result.fixes # <<>> => result.name \notin ScopeVariables(ast, others)

\* C4: the name of a new binding is the export name when no module-scope
\* variable has it, else the export name followed by the least i >= 0 that
\* gives an undeclared name (at most as many tries as there are variables);
\* the specifier reads `export as name` exactly when the name differs.
C4_NewName ==
  Inserted =>
    LET V == ScopeVariables(ast, others)
        n == call.importName
    IN /\ n \notin V => result.name = n
       /\ n \in V =>
            \E i \in 0..Cardinality(V) :
              /\ result.name = n \o Decimal(i)
              /\ result.name \notin V
              /\ \A j \in 0..(i - 1) : n \o Decimal(j) \in V
       /\ WordValues(SpecWords(TheFix.text)) =
            IF result.name = n THEN <<n>> ELSE <<n, <<"as">>, result.name>>

\* Bar and Bar0 are both declared: the new binding is Bar1, written `Bar as Bar1`.
C4_Witness ==
  /\ Inserted
  /\ call.importName = Bar
  /\ {Bar, <<"Bar", "0">>} \subseteq ScopeVariables(ast, others)
  /\ result.name = <<"Bar", "1">>

\* C5: nothing reused and an eligible declaration from the target module
\* present: one insertion into the first such declaration, after which the
\* file parses and that declaration keeps its specifiers and ends with the
\* new one; when it had a named specifier the insertion follows its last
\* specifier (stated for named exports and declarations with a from clause).
C5_InPlaceEdit ==
  (Planned /\ Reusable = {} /\ HasEligible /\ call.importName # Default
     /\ IsWord(ast.tokens, Body[FirstEligible].source.tok - 1, "from")) =>
    LET i == FirstEligible
        after == Parse(ApplyFixes(text, result.fixes, 0))
    IN /\ Len(result.fixes) = 1
       /\ Body[i].start < TheFix.range[1] /\ TheFix.range[2] < Body[i].end
       /\ TheFix.range[1] = TheFix.range[2]
       /\ after.ok
       /\ Len(after.body) = Len(Body)
       /\ Shapes(after.body[i].specifiers) = Append(Shapes(Body[i].specifiers), NewSpecShape)
       /\ HasSpecifier(Body[i], "ImportSpecifier") =>
            TheFix.range[1] = Body[i].specifiers[Len(Body[i].specifiers)].end

\* The first eligible declaration is `import foo from "m"`: a default
\* specifier alone, followed by the word from.
BareDefault(i) ==
  /\ Len(Body[i].specifiers) = 1
  /\ Body[i].specifiers[1].type = "ImportDefaultSpecifier"
  /\ IsWord(ast.tokens, Body[i].source.tok - 1, "from")
  /\ ast.tokens[Body[i].source.tok - 2].end = Body[i].specifiers[1].end

\* C6: for `import foo from "m"` the clause `, { NEW }` goes right after the
\* default specifier, and the result is `import foo, { NEW } from "m"`
\* (stated for named exports).
C6_AfterBareDefault ==
  (Planned /\ Reusable = {} /\ HasEligible /\ call.importName # Default
     /\ BareDefault(FirstEligible)) =>
      LET i == FirstEligible
          after == Parse(ApplyFixes(text, result.fixes, 0))
      IN /\ Len(result.fixes) = 1
         /\ TheFix.range = <<Body[i].specifiers[1].end, Body[i].specifiers[1].end>>
         /\ WordValues(Tokenize(TheFix.text)) =
              <<<<",">>, <<"{">>>> \o WordValues(SpecWords(TheFix.text)) \o <<<<"}">>>>
         /\ after.ok
         /\ Shapes(after.body[i].specifiers) = Append(Shapes(Body[i].specifiers), NewSpecShape)

\* C7: nothing reused, no edit inside a declaration, insertAfterLast asked
\* and an import present: one insertion right after the last import, whose
\* text is a newline, that import's column of spaces and the new import
\* statement; the position hints play no part.
C7_InsertAfterLast ==
  Inserted /\ ~InPlace /\ call.doInsertAfter /\ Imports # {} =>
    /\ Len(result.fixes) = 1
    /\ TheFix.range = <<Body[LastImportIx].end, Body[LastImportIx].end>>
    /\ TheFix.text =
         <<"\n">> \o Spaces(Body[LastImportIx].column)
           \o <<"import", " ", "{", " ">>
           \o (IF result.name = call.importName THEN call.importName
               ELSE call.importName \o <<" ", "as", " ">> \o result.name)
           \o <<" ", "}", " ", "from", " ", "\"", call.source, "\"", ";">>

\* The last import is indented, is followed by other code, and a hinted
\* import stands before it.
C7_Witness ==
  /\ Inserted /\ ~InPlace /\ call.doInsertAfter
  /\ Len(Body) = 2 /\ Imports = {1} /\ Hinted = {1}
  /\ Body[1].column = 2
  /\ TheFix.range[1] = Body[1].end

C9_PlanShape ==
  Planned =>
    /\ result.name # <<>>
    /\ Len(result.fixes) <= 1
    /\ (result.fixes = <<>>) <=> (Reusable # {})
    /\ \A f \in 1..Len(result.fixes) :
         LET fx == result.fixes[f]
             after == ApplyFixes(text, result.fixes, 0)
             words == SpecWords(fx.text)
             names == SelectSeq(words, LAMBDA tk : tk.value # <<"as">>)
         IN /\ fx.range[1] = fx.range[2]
            /\ fx.range[1] \in 0..Len(text)
            /\ fx.text # <<>>
            /\ Len(after) = Len(text) + Len(fx.text)
            /\ SubSeq(after, 1, fx.range[1]) \o SubSeq(after, fx.range[1] + Len(fx.text) + 1, Len(after))
                 = text
            /\ Len(names) - (Len(words) - Len(names)) = 1

\* An insertion in the middle of a program that already has text.
C9_Witness ==
  /\ Inserted
  /\ Len(result.fixes) = 1
  /\ 0 < TheFix.range[1] /\ TheFix.range[1] < Len(text)
  /\ result.name # call.importName

----------------------------------------------------------------------------
(* The shapes the listener does not rewrite.                               *)

BadAttribute(at) ==
  \/ at.type = "JSXSpreadAttribute"
  \/ at.nameType # "JSXIdentifier"
  \/ at.name \notin {"id", "values", "render", "component", "components"}

RECURSIVE TagObject(_)
\* The object of a member expression usable in a tag name: a.b.c
TagObject(e) ==
  \/ e.type = "Identifier"
  \/ e.type = "MemberExpression" /\ ~e.computed /\ e.propertyType = "Identifier"
       /\ TagObject(e.object[1])

TagEligible(e) ==
  \/ e.type = "Identifier" /\ e.name[1] \notin LowerCase
  \/ e.type = "MemberExpression" /\ ~e.computed /\ e.propertyType = "Identifier"
       /\ TagObject(e.object[1])

Present(n) == n.type # "CaptureFailure"

BadItems(n) ==
  \/ n.type \notin {"ObjectExpression", "ArrayExpression"}
  \/ \E k \in 1..Len(n.items) : n.items[k].type = "SpreadElement"
  \/ n.type = "ObjectExpression" /\ \E k \in 1..Len(n.items) : ~n.items[k].static

\* The keys a literal contributes: its property names, or its indexes.
Keys(n) ==
  IF n.type = "ObjectExpression" THEN [k \in 1..Len(n.items) |-> n.items[k].key]
  ELSE IF n.type = "ArrayExpression" THEN [k \in 1..Len(n.items) |-> Decimal(k - 1)]
  ELSE <<>>

Repeats(keys) == \E i, j \in 1..Len(keys) : i < j /\ keys[i] = keys[j]

Unsupported(cap) ==
  \/ cap.props.type # "PropsOf"
  \/ \E k \in 1..Len(cap.props.attributes) : BadAttribute(cap.props.attributes[k])
  \/ cap.id.type = "CaptureFailure"
  \/ ~(cap.id.type = "Literal" /\ cap.id.valueType = "string")
  \/ Present(cap.render) /\ cap.render.type # "JSXElement"
  \/ Present(cap.component) /\ ~TagEligible(cap.component)
  \/ Present(cap.values) /\ BadItems(cap.values)
  \/ Present(cap.components) /\ BadItems(cap.components)
  \/ Repeats(Keys(cap.values) \o Keys(cap.components))

\* C10: the listener always reports migrate-trans-jsx, and offers a fix
\* exactly when the match is fully supported: props of an element, only
\* allow-listed attributes, a string-literal id, render absent or a JSX
\* element, component absent or tag-eligible, values and components absent
\* or literals without spread, non-static key or repeated key.
C10_FixOnlyWhenSupported ==
  report # Null =>
    /\ report.messageId = "migrate-trans-jsx"
    /\ report.fix <=> ~Unsupported(captured)

\* The only unsupported thing is a key collected twice: index 0 of the
\* values array and property 0 of the components object.
C10_Witness ==
  /\ report # Null
  /\ ~report.fix
  /\ captured.props.type = "PropsOf"
  /\ \A k \in 1..Len(captured.props.attributes) : ~BadAttribute(captured.props.attributes[k])
  /\ captured.id = [type |-> "Literal", valueType |-> "string"]
  /\ captured.render.type = "JSXElement"
  /\ captured.component.type = "MemberExpression" /\ TagEligible(captured.component)
  /\ captured.values.type = "ArrayExpression" /\ ~BadItems(captured.values)
  /\ captured.components.type = "ObjectExpression" /\ ~BadItems(captured.components)
  /\ Keys(captured.values) = <<<<"0">>>>
  /\ Keys(captured.components) = <<<<"0">>>>

----------------------------------------------------------------------------
(* packages/core/src/index.ts: Book, Book.loadCatalog, getTranslator,      *)
(* preloadCatalogs and selectLocale.                                       *)
(*                                                                         *)
(* An object with string keys is a function on the set of its own keys;    *)
(* the value undefined is the string "undefined".  A promise is an entry   *)
(* of tasks: the call that made it, and whether it is pending, fulfilled   *)
(* or rejected.                                                            *)

Undefined == "undefined"

hasOwn(o, s) == s \in DOMAIN o

\* new Catalog(locale, data)
Catalog(locale) == [locale |-> locale, _looseLocale |-> FALSE]

\* new Catalog(data), the deprecated form
LooseCatalog == [locale |-> Undefined, _looseLocale |-> TRUE]

\* An entry of the constructor's catalogs: a catalog, or a loader: a function
\* whose promise fulfils with a module (default: catalog) or rejects.
Eager(catalog) == [function |-> FALSE, rejects |-> FALSE, catalog |-> catalog]

Loader(catalog) == [function |-> TRUE, rejects |-> FALSE, catalog |-> catalog]

FailingLoader == [function |-> TRUE, rejects |-> TRUE, catalog |-> LooseCatalog]

\* The locale check of a catalog about to be stored under locale.
LocaleMismatch(catalog, locale) == ~catalog._looseLocale /\ catalog.locale # locale

\* The catalog after the check: a loose catalog takes the locale of its key.
WithLocale(catalog, locale) ==
  IF catalog._looseLocale THEN [catalog EXCEPT !.locale = locale] ELSE catalog

EagerKeys(catalogs) == {l \in DOMAIN catalogs : ~catalogs[l].function}

\* Whether new Book(catalogs, options) throws.
BookThrows(catalogs, options) ==
  \/ \E l \in EagerKeys(catalogs) : LocaleMismatch(catalogs[l].catalog, l)
  \/ options.implicitLocale # Undefined /\ ~hasOwn(catalogs, options.implicitLocale)

\* new Book(catalogs, options).  options.handleError is what the handler in
\* effect does when called: it returns, or it throws.
Book(catalogs, options) ==
  [catalogs |-> [l \in EagerKeys(catalogs) |-> WithLocale(catalogs[l].catalog, l)],
   _loaders |-> catalogs,
   _handleError |-> options.handleError,
   _implicitLocale |-> options.implicitLocale]

\* locales is a string or an array of strings.
LocalesArray(locales) == IF hasOwn(locales, "array") THEN locales.array ELSE <<locales.string>>

NoError == [name |-> "none"]

NoLocaleError == [name |-> "NoLocaleError"]

MissingLocaleError(locale, availableLocales) ==
  [name |-> "MissingLocaleError", locale |-> locale, availableLocales |-> availableLocales]

Returned(value, reports) ==
  [throws |-> FALSE, value |-> value, error |-> NoError, handled |-> reports]

Thrown(error, reports) ==
  [throws |-> TRUE, value |-> Undefined, error |-> error, handled |-> reports]

\* book.handleError(e, level): the call is reported; a handler that throws
\* ends the caller.
HandlerThrows(b) == b._handleError = "throws"

HandlerError(e) == [name |-> "thrown by handleError", cause |-> e]

RECURSIVE FilterLocales(_, _)
\* The locales of the array that are own keys of loaders, in order.
FilterLocales(loaders, localesArray) ==
  IF localesArray = <<>> THEN <<>>
  ELSE (IF hasOwn(loaders, Head(localesArray)) THEN <<Head(localesArray)>> ELSE <<>>)
         \o FilterLocales(loaders, Tail(localesArray))

SelectError(b, localesArray) ==
  IF Len(localesArray) = 0 THEN NoLocaleError
  ELSE MissingLocaleError(localesArray[1], DOMAIN b._loaders)

\* No requested locale is configured.
SelectFallback(b, error) ==
  IF b._implicitLocale # Undefined
    THEN IF HandlerThrows(b)
           THEN Thrown(HandlerError(error), <<[error |-> error, level |-> "error"]>>)
         ELSE Returned(b._implicitLocale, <<[error |-> error, level |-> "error"]>>)
  ELSE Thrown(error, <<>>)

SelectLast(b, localesArray, filteredLocales) ==
  IF Len(filteredLocales) = 0 THEN SelectFallback(b, SelectError(b, localesArray))
  ELSE Returned(filteredLocales[Len(filteredLocales)], <<>>)

SelectFirst(b, localesArray, filteredLocales) ==
  IF Len(filteredLocales) = 0 THEN SelectFallback(b, SelectError(b, localesArray))
  ELSE Returned(filteredLocales[1], <<>>)

selectLocaleLoaded(b, locales) ==
  SelectFirst(b, LocalesArray(locales),
              FilterLocales(b.catalogs, LocalesArray(locales))
                \o FilterLocales(b._loaders, LocalesArray(locales)))

\* selectLocale(book, locales): what it returns or throws, and the calls of
\* book.handleError it makes.
selectLocale(b, locales) ==
  SelectFirst(b, LocalesArray(locales),
              FilterLocales(b._loaders, LocalesArray(locales)))

\* A promise: the async call it belongs to, the caller of that call, and its
\* state.  inner is the state of the promise the call awaits: for
\* preloadCatalogs the promise of its own loadCatalog call ("none" when it
\* awaits nothing).
Promise(fn, by, locale, state, inner) ==
  [fn |-> fn, by |-> by, locale |-> locale, state |-> state, inner |-> inner]

\* The state of the promise of book.loadCatalog(locale) at its first await.
LoadState(b, locale) ==
  IF ~hasOwn(b._loaders, locale) \/ ~b._loaders[locale].function THEN "fulfilled"
  ELSE "pending"

\* book.loadCatalog(locale) up to its first await.
LoadCall(b, by, locale) == Promise("loadCatalog", by, locale, LoadState(b, locale), "none")

\* book.loadCatalog(locale) from the await on: whether it throws.
LoadRejects(b, locale) ==
  \/ b._loaders[locale].rejects
  \/ LocaleMismatch(b._loaders[locale].catalog, locale)

\* book.loadCatalog(locale) from the await on: the catalogs after it.
LoadStores(b, locale) ==
  IF LoadRejects(b, locale) \/ hasOwn(b.catalogs, locale) THEN b.catalogs
  ELSE (locale :> WithLocale(b._loaders[locale].catalog, locale)) @@ b.catalogs

Translator(locale, catalog) ==
  [kind |-> "translator", locale |-> locale, catalog |-> catalog,
   error |-> NoError, promise |-> 0]

ThrowsError(error) ==
  [kind |-> "error", locale |-> Undefined, catalog |-> Null,
   error |-> error, promise |-> 0]

ThrowsPromise(locale, p) ==
  [kind |-> "promise", locale |-> locale, catalog |-> Null,
   error |-> NoError, promise |-> p]

CatalogNotLoaded(locale) == [name |-> "Error", message |-> <<"Catalog not loaded: ", locale>>]

NotLoadedThrowsPromise(locale, options, p) == ThrowsPromise(locale, p)

\* Lines 597-603, catalog == null; p is the promise loadCatalog would return.
NotLoaded(locale, options, p) ==
  IF options.throwPromise THEN ThrowsPromise(locale, p)
  ELSE ThrowsError(CatalogNotLoaded(locale))

\* Lines 596-597.  Locale keys are taken not to be names of properties of
\* Object.prototype, so that catalogs[locale] is null exactly when locale is
\* not an own key of catalogs.
Lookup(b, locale, options, p) ==
  IF ~hasOwn(b.catalogs, locale) THEN NotLoaded(locale, options, p)
  ELSE Translator(locale, b.catalogs[locale])

GetWith(b, sel, options, p) ==
  IF sel.throws THEN ThrowsError(sel.error) ELSE Lookup(b, sel.value, options, p)

\* getTranslator(book, locales, options): what it returns or throws; p is
\* the index the next promise takes.
getTranslator(b, locales, options, p) == GetWith(b, selectLocale(b, locales), options, p)

----------------------------------------------------------------------------
(* Books, requests and the calls an application makes.                     *)

\* Locales a book may be configured with, and two no book has.
KeyLocales == {"en", "ja"}

AllLocales == KeyLocales \cup {"fr", "de"}

\* The most promises made.
MaxTasks == 2

\* What a book may hold under key l: a catalog or a loader, of either form
\* of Catalog, with the right locale or another, or a loader that fails.
Entries(l) ==
  {Eager(Catalog(l)), Eager(LooseCatalog), Loader(Catalog(l)), Loader(LooseCatalog),
   FailingLoader}
    \cup {Eager(Catalog(m)) : m \in KeyLocales \ {l}}
    \cup {Loader(Catalog(m)) : m \in KeyLocales \ {l}}

\* The first argument of new Book: "en" in every form, the other keys plain.
Configs ==
  UNION {{c \in [keys -> UNION {Entries(l) : l \in keys}] :
            \A l \in keys : c[l] \in (IF l = "en" THEN Entries(l)
                                   ELSE {Eager(Catalog(l)), Loader(Catalog(l))})} :
         keys \in SUBSET KeyLocales}

BookOptionsSet ==
  [handleError : {"returns", "throws"}, implicitLocale : AllLocales \cup {Undefined}]

\* The locales argument: a string, or an array in the order of preference.
Requests ==
  {[string |-> "en"], [string |-> "fr"],
   [array |-> <<>>], [array |-> <<"ja">>], [array |-> <<"fr">>],
   [array |-> <<"en", "ja">>], [array |-> <<"ja", "en">>],
   [array |-> <<"fr", "en">>], [array |-> <<"fr", "de">>]}

GetTranslatorOptionsSet == [throwPromise : BOOLEAN]

\* The state after new Book(catalogs, options) returned; requested is the
\* locales argument the application passes to getTranslator and to
\* preloadCatalogs.
InitCore ==
  /\ text = <<>>
  /\ others = {}
  /\ ast = Parse(text)
  /\ phase = "idle"
  /\ call = Null
  /\ result = Null
  /\ first = Null
  /\ captured = Null
  /\ report = Null
  /\ \E c \in Configs : \E o \in BookOptionsSet :
       /\ ~BookThrows(c, o)
       /\ book = Book(c, o)
  /\ requested \in Requests
  /\ tasks = <<>>
  /\ got = Null
  /\ handled = <<>>

\* The promises the application holds after book.loadCatalog(locale): a call
\* that returns at line 287 leaves nothing to wait for.
Held(ts, t) == IF t.state = "pending" THEN Append(ts, t) ELSE ts

\* The application calls book.loadCatalog(locale).
LoadCatalog(locale) ==
  /\ Len(tasks) < MaxTasks
  /\ tasks' = Held(tasks, LoadCall(book, "application", locale))
  /\ UNCHANGED <<book, requested, got, handled>>
  /\ UNCHANGED ruleVars

\* The promise of task t's loadCatalog call: its own, or the one it awaits.
Loading(t) ==
  \/ t.fn = "loadCatalog" /\ t.state = "pending"
  \/ t.fn = "preloadCatalogs" /\ t.inner = "pending"

LoadSettled(b, locale) == IF LoadRejects(b, locale) THEN "rejected" ELSE "fulfilled"

Settle(t, state) ==
  IF t.fn = "loadCatalog" THEN [t EXCEPT !.state = state] ELSE [t EXCEPT !.inner = state]

\* The loader's promise of a pending loadCatalog settles and the call resumes.
LoadResume(i) ==
  /\ Loading(tasks[i])
  /\ book' = [book EXCEPT !.catalogs = LoadStores(book, tasks[i].locale)]
  /\ tasks' = [tasks EXCEPT ![i] = Settle(tasks[i], LoadSettled(book, tasks[i].locale))]
  /\ UNCHANGED <<requested, got, handled>>
  /\ UNCHANGED ruleVars

PreloadNoAwait(b, sel) ==
  IF sel.throws THEN Promise("preloadCatalogs", "application", Undefined, "rejected", "none")
  ELSE Promise("preloadCatalogs", "application", sel.value, "fulfilled", "none")

\* preloadCatalogs up to its await, sel the result of selectLocale.
PreloadCall(b, sel) ==
  IF sel.throws THEN Promise("preloadCatalogs", "application", Undefined, "rejected", "none")
  ELSE IF hasOwn(b.catalogs, sel.value)
    THEN Promise("preloadCatalogs", "application", sel.value, "fulfilled", "none")
  ELSE Promise("preloadCatalogs", "application", sel.value, "pending",
               LoadState(b, sel.value))

\* The application calls preloadCatalogs(book, requested).
PreloadCatalogs ==
  /\ Len(tasks) < MaxTasks
  /\ tasks' = Append(tasks, PreloadCall(book, selectLocale(book, requested)))
  /\ handled' = selectLocale(book, requested).handled
  /\ UNCHANGED <<book, requested, got>>
  /\ UNCHANGED ruleVars

\* The promise a pending preloadCatalogs awaits has settled and the call ends.
PreloadResume(i) ==
  /\ tasks[i].fn = "preloadCatalogs"
  /\ tasks[i].state = "pending"
  /\ tasks[i].inner # "pending"
  /\ tasks' = [tasks EXCEPT ![i].state = tasks[i].inner]
  /\ UNCHANGED <<book, requested, got, handled>>
  /\ UNCHANGED ruleVars

\* The promises a getTranslator call with result r makes.
Started(b, r) ==
  IF r.kind = "promise" THEN <<LoadCall(b, "getTranslator", r.locale)>> ELSE <<>>

\* The application calls getTranslator(book, requested, options).
GetTranslator(options) ==
  /\ Len(tasks) + Len(Started(book, getTranslator(book, requested, options, Len(tasks) + 1)))
       <= MaxTasks
  /\ got' = [options |-> options,
             selected |-> selectLocale(book, requested),
             result |-> getTranslator(book, requested, options, Len(tasks) + 1)]
  /\ tasks' = tasks \o Started(book, getTranslator(book, requested, options, Len(tasks) + 1))
  /\ handled' = selectLocale(book, requested).handled
  /\ UNCHANGED <<book, requested>>
  /\ UNCHANGED ruleVars

NextCore ==
  \/ \E l \in KeyLocales \cup {"fr"} : LoadCatalog(l)
  \/ \E i \in 1..Len(tasks) : LoadResume(i)
  \/ PreloadCatalogs
  \/ \E i \in 1..Len(tasks) : PreloadResume(i)
  \/ \E o \in GetTranslatorOptionsSet : GetTranslator(o)

SpecCore == InitCore /\ [][NextCore]_vars

----------------------------------------------------------------------------
(* Properties of the runtime library.                                      *)

\* The requested locales in the order of preference.
Wanted == LocalesArray(requested)

Configured(l) == l \in DOMAIN book._loaders

AnyConfigured == \E i \in 1..Len(Wanted) : Configured(Wanted[i])

\* The first requested locale the book is configured with.
FirstConfigured ==
  Wanted[CHOOSE i \in 1..Len(Wanted) :
           Configured(Wanted[i]) /\ \A j \in 1..(i - 1) : ~Configured(Wanted[j])]

\* The keys whose catalog a loader brought in.
LazyLoaded == DOMAIN book.catalogs \ EagerKeys(book._loaders)

IsCatalogNotLoaded(r) == r.kind = "error" /\ r.error.name = "Error"

Fulfilled(fn) == {i \in 1..Len(tasks) : tasks[i].fn = fn /\ tasks[i].state = "fulfilled"}

\* C11: once the promise of preloadCatalogs(book, locales) has fulfilled,
\* getTranslator(book, locales), with or without throwPromise, does not throw
\* "Catalog not loaded", whatever other loadCatalog and preloadCatalogs
\* calls on the book have been made, are pending or have settled.
C11_PreloadedThenLoaded ==
  Fulfilled("preloadCatalogs") # {} =>
    \A o \in GetTranslatorOptionsSet :
      ~IsCatalogNotLoaded(getTranslator(book, requested, o, Len(tasks) + 1))

\* A preloadCatalogs call that waited for a loader has fulfilled, another
\* loadCatalog call ran beside it, and getTranslator returned the translator.
C11_Witness ==
  /\ got # Null
  /\ got.result.kind = "translator"
  /\ \E i \in Fulfilled("preloadCatalogs") :
       /\ tasks[i].inner = "fulfilled"
       /\ tasks[i].locale = got.result.locale
       /\ tasks[i].locale \in LazyLoaded
       /\ \E j \in 1..Len(tasks) : tasks[j].fn = "loadCatalog"

\* The books that differ from book only in which lazy catalogs are loaded.
LoadStates ==
  {[book EXCEPT !.catalogs =
      [l \in EagerKeys(book._loaders) \cup loaded |->
         WithLocale(book._loaders[l].catalog, l)]] :
     loaded \in SUBSET (DOMAIN book._loaders \ EagerKeys(book._loaders))}

\* C12: for the requested locales, the locale selectLocale chooses (its
\* result, error and reports included) is the same for the book and for
\* every book that differs from it only in which lazy catalogs are loaded;
\* so the selection a getTranslator call made earlier, in another load
\* state, is the one the book makes now.
C12_SelectionIgnoresLoadState ==
  /\ book \in LoadStates
  /\ \A b1 \in LoadStates : selectLocale(b1, requested) = selectLocale(book, requested)
  /\ got # Null => got.selected = selectLocale(book, requested)

\* The second requested locale has been loaded by its loader, the first has
\* a loader and is not loaded, and getTranslator selected the first.
C12_Witness ==
  /\ got # Null
  /\ Len(Wanted) = 2
  /\ Wanted[2] \in LazyLoaded
  /\ Configured(Wanted[1])
  /\ Wanted[1] \notin DOMAIN book.catalogs
  /\ ~got.selected.throws
  /\ got.selected.value = Wanted[1]

\* The error selectLocale makes when no requested locale is configured.
ExpectedError(e) ==
  IF Len(Wanted) = 0 THEN e.name = "NoLocaleError"
  ELSE e.name = "MissingLocaleError" /\ e.locale = Wanted[1]

ReportedOnce(reports) ==
  /\ Len(reports) = 1
  /\ reports[1].level = "error"
  /\ ExpectedError(reports[1].error)

\* C13 as stated: selectLocale returns the first requested locale that is an
\* own key of the book's catalogs; when none is and implicitLocale is set it
\* reports the error to book.handleError with level "error" and returns
\* implicitLocale; when implicitLocale is not set it throws NoLocaleError
\* for an empty list and MissingLocaleError for the first requested locale.
C13_SelectLocale ==
  got # Null =>
    IF AnyConfigured
      THEN ~got.selected.throws /\ got.selected.value = FirstConfigured
    ELSE IF book._implicitLocale # Undefined
      THEN /\ ReportedOnce(got.selected.handled)
           /\ ~got.selected.throws
           /\ got.selected.value = book._implicitLocale
    ELSE got.selected.throws /\ ExpectedError(got.selected.error)

\* C13 amended: as stated, except that with implicitLocale set the call
\* returns implicitLocale only when the handler returns; when the handler
\* throws, selectLocale ends with what the handler threw.  Nothing is
\* reported in the other cases.
C13_SelectLocaleHandler ==
  got # Null =>
    IF AnyConfigured
      THEN /\ ~got.selected.throws
           /\ got.selected.value = FirstConfigured
           /\ got.selected.handled = <<>>
    ELSE IF book._implicitLocale # Undefined
      THEN /\ ReportedOnce(got.selected.handled)
           /\ got.selected.handled = handled
           /\ IF HandlerThrows(book)
                THEN /\ got.selected.throws
                     /\ got.selected.error = HandlerError(got.selected.handled[1].error)
                     /\ got.result = ThrowsError(got.selected.error)
              ELSE ~got.selected.throws /\ got.selected.value = book._implicitLocale
    ELSE /\ got.selected.throws
         /\ ExpectedError(got.selected.error)
         /\ got.selected.handled = <<>>

\* Two locales were requested, neither is configured, implicitLocale is set
\* and the handler, called with the error, threw.
C13_Witness ==
  /\ got # Null
  /\ Len(Wanted) = 2
  /\ ~AnyConfigured
  /\ book._implicitLocale # Undefined
  /\ HandlerThrows(book)
  /\ Len(handled) = 1
  /\ got.selected.throws

\* A getTranslator call that finds the selected catalog not loaded.
Unloaded(sel) == ~sel.throws /\ ~hasOwn(book.catalogs, sel.value)

ThrowsTheLoad(sel) ==
  /\ got'.result.kind = "promise"
  /\ got'.result.promise = Len(tasks) + 1
  /\ tasks' = Append(tasks, Promise("loadCatalog", "getTranslator", sel.value, "pending", "none"))
  /\ book' = book

ThrowsNotLoaded(sel) ==
  /\ got'.result.kind = "error"
  /\ got'.result.error = [name |-> "Error", message |-> <<"Catalog not loaded: ", sel.value>>]
  /\ tasks' = tasks
  /\ book'.catalogs = book.catalogs

\* Once the promise getTranslator threw has fulfilled, getTranslator returns
\* a translator, with either option.
RetryReturns ==
  \A i \in Fulfilled("loadCatalog") :
    tasks[i].by = "getTranslator" =>
      \A o \in GetTranslatorOptionsSet :
        /\ getTranslator(book, requested, o, Len(tasks) + 1).kind = "translator"
        /\ getTranslator(book, requested, o, Len(tasks) + 1).locale = tasks[i].locale

----------------------------------------------------------------------------
(* The imports of one fix (lines 147-167): Translate from "@hi18n/react",  *)
(* then book from the book path, both read off the unedited program.       *)

Translate == <<"Translate">>

BookName == <<"book">>

\* The rule's bookPath option.
BookPath == "./locale"

TranslateCall ==
  [source |-> "@hi18n/react", importName |-> Translate,
   positionHintSources |-> <<"@lingui/react", "@lingui/macro">>, doInsertAfter |-> FALSE]

BookCall ==
  [source |-> BookPath, importName |-> BookName,
   positionHintSources |-> <<>>, doInsertAfter |-> TRUE]

\* Statements of the file being migrated: imports of the two exports under
\* their own and under each other's names, and bindings of those names by
\* other modules and other code.
FixStmts ==
  { <<"import", " ", "{", " ", "Translate", " ", "}", " ", "from", " ",
      "\"", "@hi18n/react", "\"", ";">>,
    <<"import", " ", "{", " ", "Translate", " ", "as", " ", "book", " ", "}", " ", "from", " ",
      "\"", "@hi18n/react", "\"", ";">>,
    <<"import", " ", "type", " ", "{", " ", "Translate", " ", "}", " ", "from", " ",
      "\"", "@hi18n/react", "\"", ";">>,
    <<"import", " ", "{", " ", "book", " ", "}", " ", "from", " ", "\"", "./locale", "\"", ";">>,
    <<"import", " ", "{", " ", "book", " ", "as", " ", "Translate", " ", "}", " ", "from", " ",
      "\"", "./locale", "\"", ";">>,
    <<"import", " ", "{", " ", "book", " ", "as", " ", "Translate", "0", " ", "}", " ",
      "from", " ", "\"", "./locale", "\"", ";">>,
    <<"import", " ", "{", " ", "Trans", " ", "}", " ", "from", " ",
      "\"", "@lingui/react", "\"", ";">>,
    <<"import", " ", "book", "0", " ", "from", " ", "\"", "x", "\"", ";">> }

\* Names other code may declare at module scope.
FixNames ==
  {Translate, BookName}
    \cup {Translate \o Decimal(i) : i \in 0..(MaxTaken - 1)}
    \cup {BookName \o Decimal(i) : i \in 0..(MaxTaken - 1)}

InitFix ==
  /\ \E n \in 0..MaxStmts : \E stmts \in [1..n -> FixStmts] : text = Lines(stmts, 0)
  /\ others \in SUBSET FixNames
  /\ ast = Parse(text)
  /\ Valid(ast, others)
  /\ phase = "idle"
  /\ call = Null
  /\ result = Null
  /\ first = Null
  /\ captured = Null
  /\ report = Null
  /\ NoBook

\* The fix function up to its second yield*: the two calls, in order.
FixImports ==
  /\ phase = "idle"
  /\ first' = [call |-> TranslateCall,
               name |-> getOrInsertImport(ast, ScopeVariables(ast, others), TranslateCall).name,
               fixes |-> getOrInsertImport(ast, ScopeVariables(ast, others), TranslateCall).fixes]
  /\ call' = BookCall
  /\ result' = getOrInsertImport(ast, ScopeVariables(ast, others), BookCall)
  /\ phase' = "fixed"
  /\ UNCHANGED <<text, others, ast, captured, report>>
  /\ UNCHANGED coreVars

SpecFix == InitFix /\ [][FixImports]_vars

\* C15: the two getOrInsertImport calls of one fix, made on the same unedited
\* program, return different local names, and a name a call introduces (it
\* returns fixes) is not the name of a module-scope variable of that program.
C15_FixNamesDistinct ==
  phase = "fixed" =>
    /\ first.name # result.name
    /\ first.fixes # <<>> => first.name \notin Locals(ast.body) \cup others
    /\ result.fixes # <<>> => result.name \notin Locals(ast.body) \cup others

\* Translate is imported under the name book and reused; book, not yet
\* imported, is introduced under the name book0.
C15_Witness ==
  /\ phase = "fixed"
  /\ first.name = BookName
  /\ first.fixes = <<>>
  /\ result.fixes # <<>>
  /\ result.name = BookName \o <<"0">>

====
